---------------------------- MODULE Spec2Model ----------------------------
(* gopigz (src/main.go): a pipeline of four goroutines                    *)
(*   reader -> compress -> main (write, writeTrailer), reader -> checksum *)
(* connected by unbuffered channels.  The model keeps one program counter *)
(* per goroutine; a send on an unbuffered channel and the matching        *)
(* receive are one joint step of the two goroutines.                      *)
(* Sizes are scaled down: BLOCK_SIZE stands for 128 KiB and               *)
(* ReaderBufSize for the 4096-byte buffer of bufio.NewReader; the order   *)
(* BLOCK_SIZE >= ReaderBufSize of the program is kept.                    *)
EXTENDS Integers, Sequences, FiniteSets, TLC

\* ------------------------------------------------------------ bounds ----
MaxLen == 3          \* longest input stream
MaxFaultAt == 1      \* a read fault, if any, hits one of the first MaxFaultAt reads of stdin

\* ------------------------------------------------------ program sizes ----
BLOCK_SIZE == 2      \* src/main.go:21 (scaled)
ReaderBufSize == 1   \* bufio.NewReader default buffer size, src/main.go:97 (scaled)

VARIABLES
  \* the environment: what stdin delivers and how stdin/stdout behave
  input,        \* the whole input byte sequence
  shortReads,   \* TRUE: a read of stdin may return fewer bytes than asked
  \* os.Stdin and the bufio.Reader around it
  pos,          \* bytes of input consumed from stdin
  nReads,       \* calls of os.Stdin.Read so far
  readErrSeen,  \* stdin has returned an error other than io.EOF
  rbuf,         \* bufio.Reader: bytes buffered and not yet delivered
  \* the reader goroutine
  inputBuffer,  \* the one buffer of BLOCK_SIZE bytes (line 93)
  numBytes, err, numBlocks,
  readerPC,
  rOutClosed,   \* read()'s out channel is closed
  \* globals
  blocks,       \* the block structs allocated so far; a *block is an index
  nTotalBytes,
  checksum,     \* [init: checksum # nil, bytes: what was written to the CRC]
  \* the checksum goroutine
  accPC,
  \* the compress goroutine
  compPC, compB,
  cOutClosed,   \* compress()'s out channel is closed
  \* main
  mainPC, mainB,
  written,      \* the *block values passed to write(), in order
  unflushed,    \* blocks whose bytes sit in a bufio.Writer nobody flushes
  sink,         \* what reached os.Stdout
  sinkErrSeen,  \* a write to os.Stdout has failed
  trailer       \* trailerBuf as filled in by writeTrailer

envVars == <<input, shortReads>>
srcVars == <<pos, nReads, readErrSeen, rbuf>>
readerVars == <<inputBuffer, numBytes, err, numBlocks, readerPC, rOutClosed>>
compVars == <<compPC, compB, cOutClosed>>
mainVars == <<mainPC, mainB, written, unflushed, sink, sinkErrSeen, trailer>>
vars == <<envVars, srcVars, readerVars, blocks, nTotalBytes, checksum, accPC,
          compVars, mainVars>>

\* ----------------------------------------------------------- helpers ----
Min(a, b) == IF a < b THEN a ELSE b

\* The program never looks at the value of a byte, so an input whose bytes
\* are all different (byte i is i; 0 is the zero value of a fresh buffer)
\* shows every loss, duplication, reordering or stale byte.
InputOfLen(n) == [i \in 1..n |-> i]

\* copy(p, data): data overwrites the front of p, the rest of p stays
Overwrite(p, data) ==
  [i \in 1..Len(p) |-> IF i <= Len(data) THEN data[i] ELSE p[i]]

NoData == [set |-> FALSE, raw |-> <<>>, syncFlush |-> FALSE,
           endMarker |-> FALSE]

\* the process is alive: main has neither returned nor panicked
Running == mainPC \notin {"done", "panic"}

\* ------------------------------------------------ os.Stdin, bufio.Reader ----
\* os.Stdin.Read may fail with an error other than io.EOF; the model lets
\* one read fail, among the first MaxFaultAt, and the later ones work again
ReadFaults ==
  IF ~readErrSeen /\ nReads < MaxFaultAt
  THEN {[n |-> 0, err |-> "ERR"]} ELSE {}

\* os.Stdin.Read on a buffer of m bytes: the (n, err) it can return
UnderlyingRead(m) ==
  ReadFaults \cup
  (IF pos = Len(input) THEN {[n |-> 0, err |-> "EOF"]}
   ELSE LET most == Min(m, Len(input) - pos)
        IN {[n |-> k, err |-> "nil"] :
              k \in (IF shortReads THEN 1..most ELSE {most})})

\* bufio.Reader.Read(p): buffered bytes first; else, for len(p) >= the
\* buffer size, one read of stdin straight into p; else one read into the
\* buffer and a copy.  b.err is cleared by readErr() on every return.
BufioRead(p) ==
  IF rbuf # <<>>
  THEN LET n == Min(Len(p), Len(rbuf))
       IN {[n |-> n, err |-> "nil", p |-> Overwrite(p, SubSeq(rbuf, 1, n)),
            rbuf |-> SubSeq(rbuf, n + 1, Len(rbuf)),
            pos |-> pos, reads |-> nReads, fault |-> FALSE]}
  ELSE IF Len(p) >= ReaderBufSize
  THEN {[n |-> o.n, err |-> o.err,
         p |-> Overwrite(p, SubSeq(input, pos + 1, pos + o.n)),
         rbuf |-> <<>>, pos |-> pos + o.n, reads |-> nReads + 1,
         fault |-> (o.err = "ERR")] : o \in UnderlyingRead(Len(p))}
  ELSE {LET data == SubSeq(input, pos + 1, pos + o.n)
            n == Min(Len(p), o.n)
        IN [n |-> n, err |-> o.err,
            p |-> Overwrite(p, SubSeq(data, 1, n)),
            rbuf |-> SubSeq(data, n + 1, o.n),
            pos |-> pos + o.n, reads |-> nReads + 1,
            fault |-> (o.err = "ERR")] : o \in UnderlyingRead(ReaderBufSize)}

\* bufio.Reader.Peek(1): fills the buffer with one read of stdin when it is
\* empty; the error is nil, io.EOF or the read error, never ErrNegativeCount
\* (that one is returned for a negative argument only).
BufioPeek1 ==
  IF rbuf # <<>>
  THEN {[err |-> "nil", rbuf |-> rbuf, pos |-> pos, reads |-> nReads,
         fault |-> FALSE]}
  ELSE {[err |-> o.err, rbuf |-> SubSeq(input, pos + 1, pos + o.n),
         pos |-> pos + o.n, reads |-> nReads + 1,
         fault |-> (o.err = "ERR")] : o \in UnderlyingRead(ReaderBufSize)}

\* --------------------------------------------------------------- Init ----
Init ==
  /\ input \in {InputOfLen(n) : n \in 0..MaxLen}
  /\ shortReads \in BOOLEAN
  /\ pos = 0 /\ nReads = 0 /\ readErrSeen = FALSE /\ rbuf = <<>>
  /\ inputBuffer = [i \in 1..BLOCK_SIZE |-> 0]
  /\ numBytes = 0 /\ err = "nil" /\ numBlocks = 0
  /\ readerPC = "first" /\ rOutClosed = FALSE
  /\ blocks = <<>>
  /\ nTotalBytes = 0
  /\ checksum = [init |-> FALSE, bytes |-> <<>>]
  /\ accPC = "init"
  /\ compPC = "recv" /\ compB = 0 /\ cOutClosed = FALSE
  /\ mainPC = "range" /\ mainB = 0
  /\ written = <<>> /\ unflushed = <<>> /\ sink = <<>>
  /\ sinkErrSeen = FALSE
  /\ trailer = [set |-> FALSE, crc |-> <<>>, count |-> 0]

\* ----------------------------------------------------- reader goroutine ----
\* `for err != io.EOF` (line 99)
LoopTarget(e) == IF e # "EOF" THEN "read" ELSE "close"

\* line 98: numBytes, err := reader.Read(inputBuffer)
ReaderFirstRead ==
  /\ Running /\ readerPC = "first"
  /\ \E o \in BufioRead(inputBuffer) :
       /\ inputBuffer' = o.p /\ numBytes' = o.n /\ err' = o.err
       /\ rbuf' = o.rbuf /\ pos' = o.pos /\ nReads' = o.reads
       /\ readErrSeen' = (readErrSeen \/ o.fault)
       /\ readerPC' = LoopTarget(o.err)
  /\ UNCHANGED <<envVars, numBlocks, rOutClosed, blocks, nTotalBytes,
                 checksum, accPC, compVars, mainVars>>

\* line 100: numBytes, err = reader.Read(inputBuffer)
ReaderRead ==
  /\ Running /\ readerPC = "read"
  /\ \E o \in BufioRead(inputBuffer) :
       /\ inputBuffer' = o.p /\ numBytes' = o.n /\ err' = o.err
       /\ rbuf' = o.rbuf /\ pos' = o.pos /\ nReads' = o.reads
       /\ readErrSeen' = (readErrSeen \/ o.fault)
  /\ readerPC' = "peek"
  /\ UNCHANGED <<envVars, numBlocks, rOutClosed, blocks, nTotalBytes,
                 checksum, accPC, compVars, mainVars>>

\* line 109 without its increment
NextIndexStuck(n) == n

\* line 109: numBlocks++ (the value line 112 stores in Index)
NextIndex(n) == n + 1

\* line 105: err == bufio.ErrNegativeCount
IsLastBlock(e) == e = "ErrNegativeCount"

\* lines 103-116: the lookahead, numBlocks++ and the new block
ReaderPeek ==
  /\ Running /\ readerPC = "peek"
  /\ \E o \in BufioPeek1 :
       /\ err' = o.err
       /\ rbuf' = o.rbuf /\ pos' = o.pos /\ nReads' = o.reads
       /\ readErrSeen' = (readErrSeen \/ o.fault)
       /\ numBlocks' = NextIndex(numBlocks)
       /\ blocks' = Append(blocks,
            [Index |-> numBlocks', LastBlock |-> IsLastBlock(o.err),
             nRawBytes |-> numBytes, CompressedData |-> NoData,
             nCompressedBytes |-> 0])
  /\ readerPC' = "sendck"
  /\ UNCHANGED <<envVars, inputBuffer, numBytes, rOutClosed, nTotalBytes,
                 checksum, accPC, compVars, mainVars>>

\* line 119 with line 58: checksumChan <- inputBuffer meets the receive of
\* the checksum goroutine; the slice sent aliases inputBuffer
SendChecksum ==
  /\ Running /\ readerPC = "sendck" /\ accPC = "recv"
  /\ readerPC' = "count" /\ accPC' = "write"
  /\ UNCHANGED <<envVars, srcVars, inputBuffer, numBytes, err, numBlocks,
                 rOutClosed, blocks, nTotalBytes, checksum, compVars, mainVars>>

\* line 120: nTotalBytes += uint32(numBytes).  The counter is 32 bits wide;
\* the sums here stay below MaxLen, so it never wraps.
ReaderCount ==
  /\ Running /\ readerPC = "count"
  /\ nTotalBytes' = nTotalBytes + numBytes
  /\ readerPC' = "sendout"
  /\ UNCHANGED <<envVars, srcVars, inputBuffer, numBytes, err, numBlocks,
                 rOutClosed, blocks, checksum, accPC, compVars, mainVars>>

\* line 123 on a buffered channel: the reader goes on without compress
SendBlockBuffered ==
  /\ Running /\ readerPC = "sendout"
  /\ IF compPC = "recv"
     THEN compB' = Len(blocks) /\ compPC' = "compress"
     ELSE UNCHANGED <<compB, compPC>>
  /\ readerPC' = LoopTarget(err)
  /\ UNCHANGED <<envVars, srcVars, inputBuffer, numBytes, err, numBlocks,
                 rOutClosed, blocks, nTotalBytes, checksum, accPC,
                 cOutClosed, mainVars>>

\* line 123 with line 137: out <- &b meets the receive of compress
SendBlock ==
  /\ Running /\ readerPC = "sendout" /\ compPC = "recv"
  /\ compB' = Len(blocks) /\ compPC' = "compress"
  /\ readerPC' = LoopTarget(err)
  /\ UNCHANGED <<envVars, srcVars, inputBuffer, numBytes, err, numBlocks,
                 rOutClosed, blocks, nTotalBytes, checksum, accPC,
                 cOutClosed, mainVars>>

\* line 125 run again: close(out) without leaving
ReaderCloseAgain ==
  /\ Running /\ readerPC = "close"
  /\ rOutClosed' = TRUE /\ readerPC' = "close"
  /\ UNCHANGED <<envVars, srcVars, inputBuffer, numBytes, err, numBlocks,
                 blocks, nTotalBytes, checksum, accPC, compVars, mainVars>>

\* line 125: close(out)
ReaderClose ==
  /\ Running /\ readerPC = "close"
  /\ rOutClosed' = TRUE /\ readerPC' = "done"
  /\ UNCHANGED <<envVars, srcVars, inputBuffer, numBytes, err, numBlocks,
                 blocks, nTotalBytes, checksum, accPC, compVars, mainVars>>

\* --------------------------------------------------- checksum goroutine ----
\* line 57: checksum = crc32.NewIEEE()
AccInit ==
  /\ Running /\ accPC = "init"
  /\ checksum' = [init |-> TRUE, bytes |-> <<>>]
  /\ accPC' = "recv"
  /\ UNCHANGED <<envVars, srcVars, readerVars, blocks, nTotalBytes,
                 compVars, mainVars>>

\* hash.Write(data): the running CRC has now taken in the bytes of data
CrcWrite(sum, data) == sum \o data

\* line 59: checksum.Write(data); data is the slice received, i.e. the
\* whole of inputBuffer as it is when the write happens
AccWrite ==
  /\ Running /\ accPC = "write"
  /\ checksum' = [checksum EXCEPT !.bytes = CrcWrite(@, inputBuffer)]
  /\ accPC' = "recv"
  /\ UNCHANGED <<envVars, srcVars, readerVars, blocks, nTotalBytes,
                 compVars, mainVars>>

\* Line 62, close(checksumChan), follows a range loop over a channel that no
\* goroutine closes: the loop never ends and the line has no step here.

\* --------------------------------------------------- compress goroutine ----
\* line 137 with a loop that ends while its channel is still open
CompRangeEndEarly ==
  /\ Running /\ compPC = "recv"
  /\ compPC' = "close"
  /\ UNCHANGED <<envVars, srcVars, readerVars, blocks, nTotalBytes,
                 checksum, accPC, compB, cOutClosed, mainVars>>

\* line 137: range over a closed and drained channel ends the loop
CompRangeEnd ==
  /\ Running /\ compPC = "recv" /\ rOutClosed
  /\ compPC' = "close"
  /\ UNCHANGED <<envVars, srcVars, readerVars, blocks, nTotalBytes,
                 checksum, accPC, compB, cOutClosed, mainVars>>

\* lines 140-158: the compressed unit made from the bytes of raw.
\* flate.Writer.Flush ends the unit with a sync marker, flate.Writer.Close
\* writes the final (stream-end) deflate block.
FlateUnit(raw, lastBlock) ==
  [set |-> TRUE, raw |-> raw, syncFlush |-> ~lastBlock, endMarker |-> TRUE]

\* the loop body of lines 138-164 skipped: the block is dropped
CompCompressDrop ==
  /\ Running /\ compPC = "compress"
  /\ compPC' = "recv"
  /\ UNCHANGED <<envVars, srcVars, readerVars, blocks, nTotalBytes,
                 checksum, accPC, compB, cOutClosed, mainVars>>

\* lines 138-161: compress b.RawData (the whole of inputBuffer, read now)
\* into a fresh buffer.  The error branches are dead: the level is valid and
\* a bytes.Buffer never fails a write.
CompCompress ==
  /\ Running /\ compPC = "compress"
  /\ blocks' = [blocks EXCEPT
       ![compB].CompressedData =
          FlateUnit(inputBuffer, blocks[compB].LastBlock),
       ![compB].nCompressedBytes = Len(inputBuffer)]
  /\ compPC' = "send"
  /\ UNCHANGED <<envVars, srcVars, readerVars, nTotalBytes, checksum, accPC,
                 compB, cOutClosed, mainVars>>

\* line 163 with line 70: out <- b meets the receive of main's range loop
SendCompressed ==
  /\ Running /\ compPC = "send" /\ mainPC = "range"
  /\ mainB' = compB /\ mainPC' = "write"
  /\ compPC' = "recv"
  /\ UNCHANGED <<envVars, srcVars, readerVars, blocks, nTotalBytes,
                 checksum, accPC, compB, cOutClosed, written, unflushed,
                 sink, sinkErrSeen, trailer>>

\* line 166: close(out)
CompClose ==
  /\ Running /\ compPC = "close"
  /\ cOutClosed' = TRUE /\ compPC' = "done"
  /\ UNCHANGED <<envVars, srcVars, readerVars, blocks, nTotalBytes,
                 checksum, accPC, compB, mainVars>>

\* ----------------------------------------------------------------- main ----
\* os.Stdout.Write: the outcomes of one write to the sink; once a write has
\* failed (the pipe is closed, the disk is full) the later ones fail too
SinkOutcomes == IF sinkErrSeen THEN {"fail"} ELSE {"ok", "fail"}

\* lines 205-210, write(b): a new bufio.Writer per call.  Write passes data
\* longer than its buffer straight to os.Stdout and keeps shorter data in
\* the buffer; there is no Flush, and the error of Write is dropped.
\* large: the compressed bytes are longer than the buffer of a bufio.Writer
\* (4096); a block of 128 KiB compresses to less or to more, by its content.
MainWrite ==
  /\ Running /\ mainPC = "write"
  /\ written' = Append(written, mainB)
  /\ \E large \in BOOLEAN :
     IF large
     THEN \E r \in SinkOutcomes :
            /\ sink' = IF r = "ok"
                       THEN Append(sink, [kind |-> "block", index |-> mainB])
                       ELSE sink
            /\ sinkErrSeen' = (sinkErrSeen \/ r = "fail")
            /\ UNCHANGED unflushed
     ELSE /\ unflushed' = Append(unflushed, mainB)
          /\ UNCHANGED <<sink, sinkErrSeen>>
  /\ mainPC' = "range"
  /\ UNCHANGED <<envVars, srcVars, readerVars, blocks, nTotalBytes,
                 checksum, accPC, compVars, mainB, trailer>>

\* line 70: range over a closed and drained channel ends the loop
MainRangeEnd ==
  /\ Running /\ mainPC = "range" /\ cOutClosed
  /\ mainPC' = "trailer"
  /\ UNCHANGED <<envVars, srcVars, readerVars, blocks, nTotalBytes,
                 checksum, accPC, compVars, mainB, written, unflushed, sink,
                 sinkErrSeen, trailer>>

\* lines 191-202, writeTrailer(), then main returns.  checksum.Sum32() on the
\* nil interface value panics; the errors of Write and Flush are dropped.
MainTrailer ==
  /\ Running /\ mainPC = "trailer"
  /\ IF ~checksum.init
     THEN /\ mainPC' = "panic"
          /\ UNCHANGED <<sink, sinkErrSeen, trailer>>
     ELSE /\ trailer' = [set |-> TRUE, crc |-> checksum.bytes,
                         count |-> nTotalBytes]
          /\ \E r \in SinkOutcomes :
               /\ sink' = IF r = "ok"
                          THEN Append(sink, [kind |-> "trailer", index |-> 0])
                          ELSE sink
               /\ sinkErrSeen' = (sinkErrSeen \/ r = "fail")
          /\ mainPC' = "done"
  /\ UNCHANGED <<envVars, srcVars, readerVars, blocks, nTotalBytes,
                 checksum, accPC, compVars, mainB, written, unflushed>>

\* ------------------------------------------------------- specification ----
Next ==
  \/ ReaderFirstRead \/ ReaderRead \/ ReaderPeek \/ SendChecksum
  \/ ReaderCount \/ SendBlock \/ ReaderClose
  \/ AccInit \/ AccWrite
  \/ CompRangeEnd \/ CompCompress \/ SendCompressed \/ CompClose
  \/ MainWrite \/ MainRangeEnd \/ MainTrailer

Spec == Init /\ [][Next]_vars

\* The Go scheduler runs every goroutine that can run: each goroutine's
\* steps are weakly fair.  A channel operation waits, without alternative,
\* until its partner arrives, so weak fairness covers the joint steps too.
ReaderStep ==
  \/ ReaderFirstRead \/ ReaderRead \/ ReaderPeek \/ SendChecksum
  \/ ReaderCount \/ SendBlock \/ ReaderClose
AccStep == AccInit \/ AccWrite
CompStep == CompRangeEnd \/ CompCompress \/ SendCompressed \/ CompClose
MainStep == MainWrite \/ MainRangeEnd \/ MainTrailer

FairSpec ==
  /\ Spec
  /\ WF_vars(ReaderStep) /\ WF_vars(AccStep)
  /\ WF_vars(CompStep) /\ WF_vars(MainStep)

\* ----------------------------------------------------------- properties ----
\* the compressed units handed to write(), in the order written
WrittenUnits == [k \in 1..Len(written) |-> blocks[written[k]].CompressedData]

\* what a deflate decoder yields for a concatenation of units: the raw bytes
\* of each unit, up to and including the first unit with a stream-end marker
RECURSIVE Decode(_)
Decode(units) ==
  IF units = <<>> THEN <<>>
  ELSE Head(units).raw \o
       (IF Head(units).endMarker THEN <<>> ELSE Decode(Tail(units)))

Ceil(a, b) == (a + b - 1) \div b

\* C1: when main has returned after a run without read fault, decoding the
\* concatenation of the units handed to write(), in the order written,
\* yields the input.
C1_RoundTrip ==
  (mainPC = "done" /\ ~readErrSeen) => Decode(WrittenUnits) = input

\* C2: the Index values passed to write() are strictly increasing.
C2_WriteOrder ==
  \A i, j \in 1..Len(written) :
     i < j => blocks[written[i]].Index < blocks[written[j]].Index

\* three blocks have been passed to write()
C2_Witness == Len(written) >= 3

\* C3: the byte count writeTrailer puts in the trailer is the length of the
\* input (runs without read fault).
C3_TrailerCount ==
  (trailer.set /\ ~readErrSeen) => trailer.count = Len(input)

\* C4: the bytes written into the running CRC, in order, are exactly the
\* input, so the digest in the trailer is the CRC of the input (runs
\* without read fault).
C4_TrailerChecksum ==
  (trailer.set /\ ~readErrSeen) => trailer.crc = input

\* C5: for a non-empty input of length L read in full reads, the reader has
\* sent ceil(L / BLOCK_SIZE) blocks when it closes its channel.
C5_BlockCount ==
  (readerPC = "done" /\ ~readErrSeen /\ ~shortReads /\ input # <<>>)
    => numBlocks = Ceil(Len(input), BLOCK_SIZE)

\* C6: for a non-empty input, exactly one block the reader has emitted has
\* LastBlock = TRUE, and it is the one with the highest Index.
C6_OneLastBlock ==
  (readerPC = "done" /\ ~readErrSeen /\ input # <<>>)
    => /\ Cardinality({i \in 1..Len(blocks) : blocks[i].LastBlock}) = 1
       /\ \A i \in 1..Len(blocks) :
            blocks[i].LastBlock <=> blocks[i].Index = numBlocks

\* C7: when main returns (no read fault, no failed write) the sink holds
\* every block, in index order, followed by one trailer, and no block is
\* left in a buffer that is never flushed.
C7_SinkComplete ==
  (mainPC = "done" /\ ~readErrSeen /\ ~sinkErrSeen)
    => /\ sink = [k \in 1..Len(blocks) |-> [kind |-> "block", index |-> k]]
                 \o <<[kind |-> "trailer", index |-> 0]>>
       /\ unflushed = <<>>

\* C8: for the empty input the run ends with main returning after a trailer
\* of byte count 0 and the checksum of the empty sequence, and no block.
C8_EmptyInput ==
  (input = <<>> /\ ~readErrSeen /\ ~Running)
    => /\ mainPC = "done"
       /\ numBlocks = 0
       /\ trailer = [set |-> TRUE, crc |-> <<>>, count |-> 0]

\* C9: once a read of the input has failed with an error other than
\* end-of-stream, no further block is produced and main does not go on to
\* return normally.
C9_ReadFaultAborts ==
  [][readErrSeen => (numBlocks' = numBlocks /\ mainPC' # "done")]_vars

\* C10: once a write to the sink has failed, no later block is passed to
\* write() and main does not go on to return normally.
C10_WriteFaultAborts ==
  [][sinkErrSeen => (written' = written /\ mainPC' # "done")]_vars

\* no read of stdin and no write to stdout has failed
NoFault == ~readErrSeen /\ ~sinkErrSeen

\* C11: in a run without fault, every state but the one where main has
\* returned after the trailer has a step to take: no set of goroutines is
\* stuck and a fair run can only end with main returned.
C11_RunsToCompletion ==
  NoFault => (mainPC = "done" \/ ENABLED Next)

\* C12: when writeTrailer has read the digest, every buffer the reader sent
\* on checksumChan has been written into it: no received buffer is waiting
\* in the checksum goroutine and the digest holds one buffer per block.
C12_FinalizeAfterIngest ==
  trailer.set => /\ accPC # "write"
                 /\ Len(trailer.crc) = BLOCK_SIZE * numBlocks

\* C13: the reader never changes inputBuffer while the checksum goroutine
\* holds a received buffer it has not yet written to the CRC, or compress
\* holds a block whose RawData it has not yet compressed.
C13_BufferFrozen ==
  [][inputBuffer' # inputBuffer
       => (accPC # "write" /\ compPC # "compress")]_vars

\* C14: over the whole stream every compressed block is closed; every block
\* but the final one of the stream is sync-flushed first and the final one
\* is not.
C14_FlushDiscipline ==
  (readerPC = "done" /\ ~readErrSeen)
    => \A k \in 1..Len(blocks) :
         blocks[k].CompressedData.set
           => /\ blocks[k].CompressedData.endMarker
              /\ blocks[k].CompressedData.syncFlush <=> (k # Len(blocks))

\* C15: the bytes fed to the compression context for a block are as many
\* as the bytes read for it (nRawBytes), in runs without read fault.
C15_TrueLength ==
  ~readErrSeen
    => \A k \in 1..Len(blocks) :
         blocks[k].CompressedData.set
           => Len(blocks[k].CompressedData.raw) = blocks[k].nRawBytes

\* the bytes the blocks account for, by their nRawBytes
RECURSIVE SumRawBytes(_)
SumRawBytes(bs) ==
  IF bs = <<>> THEN 0 ELSE Head(bs).nRawBytes + SumRawBytes(Tail(bs))

\* C16: when the reader has closed its channel after a run without read
\* fault, the bytes of every read of the input, the first one included,
\* are carried by a block: the blocks account for the whole input.
C16_EveryFillABlock ==
  (readerPC = "done" /\ ~readErrSeen) => SumRawBytes(blocks) = Len(input)

\* compress holds a block it has received and not yet sent on
CompHolding == compPC \in {"compress", "send"}

\* the blocks main has received from compress's channel, in order
MainReceived ==
  written \o (IF mainPC = "write" THEN <<mainB>> ELSE <<>>)

\* the blocks compress has received and let go of are exactly the blocks
\* main has received, once each and in order, with CompressedData set;
\* once compress has closed its channel these are all the blocks
ForwardedAll ==
  /\ MainReceived =
       [k \in 1..(compB - (IF CompHolding THEN 1 ELSE 0)) |-> k]
  /\ \A i \in 1..Len(MainReceived) :
       blocks[MainReceived[i]].CompressedData.set
  /\ cOutClosed => (~CompHolding /\ Len(MainReceived) = Len(blocks))

\* C17: every block compress receives is sent on exactly once, in order,
\* with CompressedData set and Index and LastBlock as the reader set them;
\* compress closes its channel only after all of them; and under fair
\* scheduling a block compress holds is eventually handed to main.
C17_NoSilentDrop ==
  /\ []ForwardedAll
  /\ [][\A k \in 1..Len(blocks) :
          /\ blocks'[k].Index = blocks[k].Index
          /\ blocks'[k].LastBlock = blocks[k].LastBlock]_vars
  /\ (compPC = "compress") ~> (compPC = "recv")

\* compress has forwarded three blocks and closed its channel
C17_Witness == cOutClosed /\ Len(written) >= 3

\* the reader holds a block it has created and not yet handed to compress
ReaderHolding == readerPC \in {"sendck", "count", "sendout"}

\* blocks created and not yet through write()
InFlight == numBlocks - Len(written)

\* C18: the blocks created and not yet written are those held by the
\* reader, by compress and by main, one each at most, so never more than
\* 3: the reader cannot go on to another block while the stages are full.
C18_Backpressure ==
  /\ InFlight = (IF ReaderHolding THEN 1 ELSE 0)
              + (IF CompHolding THEN 1 ELSE 0)
              + (IF mainPC = "write" THEN 1 ELSE 0)
  /\ InFlight <= 3

\* all three stages hold a block
C18_Witness == InFlight = 3 /\ ReaderHolding /\ compPC = "send"

\* C19: main is in writeTrailer only after compress has closed its
\* channel, compress closes only after the reader has closed its own, and
\* the reader closes after its last nTotalBytes += ...: the count in the
\* trailer is the final value and the reader can no longer change it.
C19_CountReadAfterLastUpdate ==
  /\ mainPC \in {"trailer", "done", "panic"} => cOutClosed
  /\ cOutClosed => rOutClosed
  /\ rOutClosed => readerPC = "done"
  /\ trailer.set => trailer.count = nTotalBytes

\* writeTrailer has read a counter the reader had added to
C19_Witness == trailer.set /\ trailer.count > 0

\* C20: a channel is closed by its own goroutine, once, and that goroutine
\* neither sends nor closes afterwards; the checksum goroutine never leaves
\* its receive loop, so close(checksumChan) never runs.
C20_CloseDiscipline ==
  /\ [](/\ rOutClosed => readerPC = "done"
        /\ cOutClosed => compPC = "done"
        /\ accPC \in {"init", "recv", "write"})
  /\ [][/\ rOutClosed' # rOutClosed => (readerPC = "close" /\ ~rOutClosed)
        /\ cOutClosed' # cOutClosed => (compPC = "close" /\ ~cOutClosed)]_vars

\* both channels closed after blocks went through, checksum loop waiting
C20_Witness ==
  rOutClosed /\ cOutClosed /\ accPC = "recv" /\ Len(written) >= 2

TypeOK ==
  /\ pos \in 0..Len(input)
  /\ Len(inputBuffer) = BLOCK_SIZE
  /\ numBlocks = Len(blocks)
  /\ nTotalBytes \in 0..Len(input)
=============================================================================
